---- MODULE Spec2Model ----
(***************************************************************************)
(* Model of libiio's XML backend (src/xml.c) and of the channels mask      *)
(* primitives (src/iio-private.h).                                         *)
(*                                                                         *)
(* A document is a tree of nodes [name, props, children]; props is the     *)
(* ordered attribute list, each attribute a [name, content] pair.  Texts   *)
(* that the code parses are sequences of one-character strings, so that    *)
(* strtoll, strtol, strtof and sscanf are modelled by what they do to the  *)
(* characters.  C integers are kept at their width as four 16-bit limbs    *)
(* (least significant first) of a 64-bit two's complement word.            *)
(***************************************************************************)
EXTENDS Integers, Sequences, FiniteSets, TLC

VARIABLES
    doc,        \* root element of the document handed to the builder
    longBits,   \* width of C long in this build (64 on LP64, 32 on LLP64/MSVC)
    round,      \* 1: first build; 2: build of the same document with extensions
    prev,       \* result of the first build (round 2 only)
    pc,         \* position inside iio_create_xml_context_helper
    loc,        \* locals description, git_tag, major, minor of the helper
    warnings,   \* prm_warn messages emitted so far
    ctx,        \* pointer to the context under construction, or NIL
    nchild,     \* cursor of the loop of iio_populate_xml_context_helper
    stepErr,    \* error code returned by the last failing callee (0: none)
    created,    \* number of contexts allocated by iio_context_create_from_backend
    destroyed,  \* number of contexts released by iio_context_destroy
    ret,        \* what the top-level build returned: NIL while running
    mask,       \* struct iio_channels_mask: sequence of 32-bit words
    lastOp,     \* history: last mask operation applied to each bit
    mpc,        \* position of the build in the memory view of the walk
    pos,        \* memory view: indices of the root child, the device child
                \* and the channel child being read
    nblocks,    \* number of heap blocks handed out so far
    live,       \* heap blocks allocated and not yet released
    misfreed,   \* heap blocks released while not live
    own,        \* blocks reachable from ctx, from dev and from chn
    mret        \* memory view: what the top-level build returned

buildVars == <<doc, longBits, round, prev, pc, loc, warnings, ctx, nchild,
               stepErr, created, destroyed, ret>>
maskVars == <<mask, lastOp>>
memVars == <<mpc, pos, nblocks, live, misfreed, own, mret>>
vars == <<buildVars, maskVars, memVars>>

\* The NULL string: texts are sequences of single characters, so no text
\* equals it.  A pointer to an object is a sequence of at most one object,
\* NIL when null.
NULL == <<"NULL">>
NIL == <<>>

(***************************************************************************)
(* errno values used by the backend.                                       *)
(***************************************************************************)
ENOENT == 2
ENOMEM == 12
EINVAL == 22

----------------------------------------------------------------------------
(***************************************************************************)
(* Characters.                                                             *)
(***************************************************************************)
DecDigits == <<"0", "1", "2", "3", "4", "5", "6", "7", "8", "9">>
HexLower == <<"a", "b", "c", "d", "e", "f">>
HexUpper == <<"A", "B", "C", "D", "E", "F">>

IndexOf(seq, c) == CHOOSE i \in 1..Len(seq) : seq[i] = c
InSeq(seq, c) == \E i \in 1..Len(seq) : seq[i] = c

\* isspace() in the C locale
IsSpace(c) == c \in {" ", "\t", "\n", "\r", "\f"}

\* value of c as a digit in the given base, or -1
AlnumVal(c) ==
    IF InSeq(DecDigits, c) THEN IndexOf(DecDigits, c) - 1
    ELSE IF InSeq(HexLower, c) THEN IndexOf(HexLower, c) + 9
    ELSE IF InSeq(HexUpper, c) THEN IndexOf(HexUpper, c) + 9
    ELSE -1
BelowBase(v, base) == IF v >= 0 /\ v < base THEN v ELSE -1
DigitVal(c, base) == BelowBase(AlnumVal(c), base)

\* first position >= p of text that is not white space (Len+1 at the end)
RECURSIVE SkipSpace(_, _)
SkipSpace(text, p) ==
    IF p <= Len(text) /\ IsSpace(text[p]) THEN SkipSpace(text, p + 1) ELSE p

\* strchr(text, c) != NULL
StrChr(text, c) == \E i \in 1..Len(text) : text[i] = c

----------------------------------------------------------------------------
(***************************************************************************)
(* 64-bit words as four 16-bit limbs, least significant first.             *)
(***************************************************************************)
Limb == 256 * 256

W(n) == <<n % Limb, (n \div Limb) % Limb, 0, 0>>         \* 0 <= n < 2^31
Zero64 == <<0, 0, 0, 0>>
LLONG_MAX == <<65535, 65535, 65535, 32767>>
LLONG_MIN == <<0, 0, 0, 32768>>

IsNeg64(x) == x[4] >= 32768

\* two's complement negation
\* the limbs t1..t4 computed with their carries still in them
Carry4(t1, t2, t3, t4) ==
    [val |-> <<t1 % Limb, t2 % Limb, t3 % Limb, t4 % Limb>>, carry |-> t4 \div Limb]
Carry3(t1, t2, t3, a4) == Carry4(t1, t2, t3, a4 + t3 \div Limb)
Carry2(t1, t2, a3, a4) == Carry3(t1, t2, a3 + t2 \div Limb, a4)
\* a1 + a2 * 2^16 + a3 * 2^32 + a4 * 2^48 as a 64-bit word and its carry out
Carry1(a1, a2, a3, a4) == Carry2(a1, a2 + a1 \div Limb, a3, a4)

Neg64(x) ==
    Carry1((Limb - 1 - x[1]) + 1, Limb - 1 - x[2], Limb - 1 - x[3],
           Limb - 1 - x[4]).val

\* signed value of -n, n >= 0 small
WNeg(n) == Neg64(W(n))

\* x * b + d as an unsigned 64-bit word, with the carry out of bit 63
MulAdd(x, b, d) == Carry1(x[1] * b + d, x[2] * b, x[3] * b, x[4] * b)

\* unsigned comparison x > y
RECURSIVE GtFrom(_, _, _)
GtFrom(x, y, i) ==
    IF i = 0 THEN FALSE
    ELSE IF x[i] # y[i] THEN x[i] > y[i]
    ELSE GtFrom(x, y, i - 1)
UGt64(x, y) == GtFrom(x, y, 4)

\* conversion of a 64-bit value to a signed integer of the given width
\* (modulo 2^bits, then sign extension), as gcc, clang and MSVC define it
ToSigned(x, bits) ==
    IF bits = 64 THEN x
    ELSE IF x[2] >= 32768 THEN <<x[1], x[2], Limb - 1, Limb - 1>>
    ELSE <<x[1], x[2], 0, 0>>

\* conversion of a 64-bit value to unsigned int (modulo 2^32)
ToUInt(x) == <<x[1], x[2], 0, 0>>

\* largest and smallest value of a signed integer of the given width
IntMax(bits) == IF bits = 64 THEN LLONG_MAX ELSE <<65535, 32767, 0, 0>>
IntMin(bits) == IF bits = 64 THEN LLONG_MIN ELSE <<0, 32768, 65535, 65535>>
\* magnitude of IntMin(bits)
IntMinMag(bits) == IF bits = 64 THEN LLONG_MIN ELSE <<0, 32768, 0, 0>>

----------------------------------------------------------------------------
(***************************************************************************)
(* strtol / strtoll (C library), for a signed integer of `bits` bits.      *)
(* Result: the value, the end position (1-based index of the first        *)
(* character not consumed; 1 when no conversion was made, as *endptr ==    *)
(* nptr) and whether errno was set to ERANGE.                              *)
(***************************************************************************)
\* accumulate the digits from p on: magnitude, sticky overflow of 64 bits,
\* position after the last digit
RECURSIVE AccDigits(_, _, _, _, _)
RECURSIVE AccNext(_, _, _, _, _)
AccDigits(text, p, base, acc, over) ==
    IF p <= Len(text) /\ DigitVal(text[p], base) >= 0
    THEN AccNext(text, p, base, MulAdd(acc, base, DigitVal(text[p], base)), over)
    ELSE [mag |-> acc, over |-> over, end |-> p]
\* r: the accumulator after the digit at p, with the carry out of 64 bits
AccNext(text, p, base, r, over) ==
    IF over \/ r.carry > 0
    THEN AccDigits(text, p + 1, base, r.val, TRUE)
    ELSE AccDigits(text, p + 1, base, r.val, FALSE)

HasHexPrefix(text, p) ==
    /\ p + 2 <= Len(text)
    /\ text[p] = "0"
    /\ text[p + 1] \in {"x", "X"}
    /\ DigitVal(text[p + 2], 16) >= 0

\* a: the digits accumulated from p2 on; none: no digit was there
IntResult(a, none, neg, erange, bits) ==
    [value |-> IF none THEN Zero64
               ELSE IF erange THEN (IF neg THEN IntMin(bits) ELSE IntMax(bits))
               ELSE IF neg THEN Neg64(a.mag) ELSE a.mag,
     end |-> IF none THEN 1 ELSE a.end,
     erange |-> erange]

IntRange(a, p2, neg, bits) ==
    IntResult(a, a.end = p2, neg,
              a.end # p2 /\ (a.over \/ UGt64(a.mag, IF neg THEN IntMinMag(bits)
                                                     ELSE IntMax(bits))),
              bits)

IntDigits(text, p2, b, neg, bits) ==
    IntRange(AccDigits(text, p2, b, Zero64, FALSE), p2, neg, bits)

\* p1: the position after the sign.  "0x" before a hexadecimal digit selects
\* base 16 (bases 0 and 16), a leading "0" base 8 (base 0)
IntBase(text, p1, base, neg, bits) ==
    IF base \in {0, 16} /\ HasHexPrefix(text, p1)
    THEN IntDigits(text, p1 + 2, 16, neg, bits)
    ELSE IF base # 0 THEN IntDigits(text, p1, base, neg, bits)
    ELSE IF p1 <= Len(text) /\ text[p1] = "0" THEN IntDigits(text, p1, 8, neg, bits)
    ELSE IntDigits(text, p1, 10, neg, bits)

IntSign(text, p0, base, bits) ==
    IF p0 <= Len(text) /\ text[p0] \in {"+", "-"}
    THEN IntBase(text, p0 + 1, base, text[p0] = "-", bits)
    ELSE IntBase(text, p0, base, FALSE, bits)

StrToInt(text, base, bits) == IntSign(text, SkipSpace(text, 1), base, bits)

\* *end, the character at the end position ('\0' at the end of the text)
CharAt(text, p) == IF p <= Len(text) THEN text[p] ELSE "\\0"

----------------------------------------------------------------------------
(***************************************************************************)
(* sscanf (C library; iio_sscanf is sscanf) for the directives the backend *)
(* uses.  A format is a sequence of directives: "%c", "%u" or a literal    *)
(* character.  Result: n, the return value (number of conversions, or EOF  *)
(* when the input ends before the first conversion), and out, the values   *)
(* stored so far, in order.  A "%u" stores modulo 2^32.                    *)
(***************************************************************************)
EOF == -1

ScanStop(text, p, out) ==
    [n |-> IF p > Len(text) /\ Len(out) = 0 THEN EOF ELSE Len(out), out |-> out]

RECURSIVE Scan(_, _, _, _, _)
RECURSIVE ScanUInt(_, _, _, _, _, _, _)
RECURSIVE ScanSign(_, _, _, _, _)

\* "%u" from q1, the position after the sign: a holds the digits
ScanUInt(text, q1, fmt, k, out, neg, a) ==
    IF a.end = q1 THEN ScanStop(text, q1, out)
    ELSE Scan(text, a.end, fmt, k + 1,
              Append(out, ToUInt(IF neg THEN Neg64(a.mag) ELSE a.mag)))

\* "%u" from q, the position after the white space
ScanSign(text, q, fmt, k, out) ==
    IF q <= Len(text) /\ text[q] \in {"+", "-"}
    THEN ScanUInt(text, q + 1, fmt, k, out, text[q] = "-",
                  AccDigits(text, q + 1, 10, Zero64, FALSE))
    ELSE ScanUInt(text, q, fmt, k, out, FALSE,
                  AccDigits(text, q, 10, Zero64, FALSE))

Scan(text, p, fmt, k, out) ==
    IF k > Len(fmt) THEN [n |-> Len(out), out |-> out]
    ELSE IF fmt[k] = "%c"
    THEN IF p > Len(text) THEN ScanStop(text, p, out)
         ELSE Scan(text, p + 1, fmt, k + 1, Append(out, text[p]))
    ELSE IF fmt[k] = "%u"
    THEN ScanSign(text, SkipSpace(text, p), fmt, k, out)
    ELSE IF p <= Len(text) /\ text[p] = fmt[k]
    THEN Scan(text, p + 1, fmt, k + 1, out)
    ELSE ScanStop(text, p, out)

sscanf(text, fmt) == Scan(text, 1, fmt, 1, <<>>)

----------------------------------------------------------------------------
(***************************************************************************)
(* strtof (C library, C locale) on decimal literals, "inf" and "nan".      *)
(* The value is kept exact as a normalised decimal: digits (no leading or  *)
(* trailing zero) and the power of ten of the last digit; the rounding to  *)
(* the nearest float is not modelled.  errno is ERANGE when the magnitude  *)
(* is beyond FLT_MAX or below FLT_MIN.  Hexadecimal floats ("0x1p3") and   *)
(* "nan(...)" are not modelled: the drawn texts hold no 'x' and no '('.    *)
(***************************************************************************)
RECURSIVE DigitRun(_, _)
\* position after the run of decimal digits starting at p
DigitRun(text, p) ==
    IF p <= Len(text) /\ DigitVal(text[p], 10) >= 0
    THEN DigitRun(text, p + 1) ELSE p

DigitsOf(text, from, to) == [i \in 1..(to - from) |-> DigitVal(text[from + i - 1], 10)]

RECURSIVE StripLead(_)
StripLead(ds) == IF Len(ds) > 0 /\ ds[1] = 0 THEN StripLead(Tail(ds)) ELSE ds

RECURSIVE TrailZeros(_)
TrailZeros(ds) ==
    IF Len(ds) > 0 /\ ds[Len(ds)] = 0
    THEN 1 + TrailZeros(SubSeq(ds, 1, Len(ds) - 1)) ELSE 0

\* small decimal number of a digit sequence, saturating at 99999
RECURSIVE SmallNum(_, _)
SmallNum(ds, acc) ==
    IF Len(ds) = 0 THEN acc
    ELSE IF acc >= 10000 THEN 99999
    ELSE SmallNum(Tail(ds), acc * 10 + ds[1])

\* FLT_MAX = 3.40282347e+38 = 0.340282347e39; FLT_MIN = 1.17549435e-38 =
\* 0.117549435e-37: the order is the power of ten of a magnitude 0.d1d2...,
\* the lead its first nine digits (above 340282356 the value rounds to
\* infinity)
FLT_MAX_ORDER == 39
FLT_MAX_LEAD == 340282356
FLT_MIN_ORDER == 0 - 37
FLT_MIN_LEAD == 117549435

SmallNum9(ds) ==
    LET d(i) == IF i <= Len(ds) THEN ds[i] ELSE 0
    IN ((((((((d(1) * 10 + d(2)) * 10 + d(3)) * 10 + d(4)) * 10 + d(5)) * 10
         + d(6)) * 10 + d(7)) * 10 + d(8)) * 10 + d(9))

\* the first nine digits of ds as a number, padded with zeros on the right
Lead9(ds) == SmallNum9(ds)

\* what strtof returns when no conversion is made
FloatNone == [kind |-> "zero", neg |-> FALSE]

LowerOf(c) ==
    CASE c = "I" -> "i" [] c = "N" -> "n" [] c = "F" -> "f" [] c = "A" -> "a"
      [] c = "T" -> "t" [] c = "Y" -> "y" [] OTHER -> c

MatchWord(text, p, word) ==
    /\ p + Len(word) - 1 <= Len(text)
    /\ \A i \in 1..Len(word) : LowerOf(text[p + i - 1]) = word[i]

\* the classification of a non-zero magnitude 0.d1d2... * 10^order
FRange(neg, ds, e10, order, end) ==
    IF order > FLT_MAX_ORDER \/ (order = FLT_MAX_ORDER /\ Lead9(ds) > FLT_MAX_LEAD)
    THEN [value |-> [kind |-> "inf", neg |-> neg], end |-> end, erange |-> TRUE]
    ELSE IF order < FLT_MIN_ORDER \/ (order = FLT_MIN_ORDER /\ Lead9(ds) < FLT_MIN_LEAD)
    THEN [value |-> [kind |-> "tiny", neg |-> neg], end |-> end, erange |-> TRUE]
    ELSE [value |-> [kind |-> "num", neg |-> neg, digits |-> ds, e10 |-> e10],
          end |-> end, erange |-> FALSE]

\* ds: the digits without leading and trailing zeros
FClass(neg, ds, e10, end) ==
    IF Len(ds) = 0
    THEN [value |-> [kind |-> "zero", neg |-> neg], end |-> end, erange |-> FALSE]
    ELSE FRange(neg, ds, e10, Len(ds) + e10, end)

FNorm(neg, lead, tz, nfrac, ex) ==
    FClass(neg, SubSeq(lead, 1, Len(lead) - tz), ex.val - nfrac + tz, ex.end)

\* raw: the digits of the integer and of the fractional part; ex: exponent
FNumber(neg, raw, nfrac, ex) ==
    FNorm(neg, StripLead(raw), TrailZeros(StripLead(raw)), nfrac, ex)

\* the exponent at pm: consumed only when 'e', an optional sign and at least
\* one digit are there
FExpParse(text, pm, pe, pee) ==
    IF pee > pe
    THEN [val |-> IF text[pm + 1] = "-"
                  THEN 0 - SmallNum(DigitsOf(text, pe, pee), 0)
                  ELSE SmallNum(DigitsOf(text, pe, pee), 0),
          end |-> pee]
    ELSE [val |-> 0, end |-> pm]

FExpStart(text, pm) ==
    IF pm + 1 <= Len(text) /\ text[pm + 1] \in {"+", "-"} THEN pm + 2 ELSE pm + 1

FExp(text, pm) ==
    IF pm <= Len(text) /\ text[pm] \in {"e", "E"}
    THEN FExpParse(text, pm, FExpStart(text, pm), DigitRun(text, FExpStart(text, pm)))
    ELSE [val |-> 0, end |-> pm]

\* the digits run from p1 to pi; when a '.' is at pi the fraction runs to pf
FDecimal(text, neg, p1, pi, pf) ==
    IF (pi - p1) + (IF pf > pi THEN pf - pi - 1 ELSE 0) = 0
    THEN [value |-> FloatNone, end |-> 1, erange |-> FALSE]
    ELSE FNumber(neg,
                 DigitsOf(text, p1, pi)
                     \o (IF pf > pi THEN DigitsOf(text, pi + 1, pf) ELSE <<>>),
                 IF pf > pi THEN pf - pi - 1 ELSE 0,
                 FExp(text, pf))

FMantissa(text, neg, p1, pi) ==
    FDecimal(text, neg, p1, pi,
             IF pi <= Len(text) /\ text[pi] = "." THEN DigitRun(text, pi + 1) ELSE pi)

FAfterSign(text, neg, p1) ==
    IF MatchWord(text, p1, <<"i", "n", "f">>)
    THEN [value |-> [kind |-> "inf", neg |-> neg],
          end |-> IF MatchWord(text, p1, <<"i", "n", "f", "i", "n", "i", "t", "y">>)
                  THEN p1 + 8 ELSE p1 + 3,
          erange |-> FALSE]
    ELSE IF MatchWord(text, p1, <<"n", "a", "n">>)
    THEN [value |-> [kind |-> "nan", neg |-> neg], end |-> p1 + 3, erange |-> FALSE]
    ELSE FMantissa(text, neg, p1, DigitRun(text, p1))

FSign(text, p0) ==
    IF p0 <= Len(text) /\ text[p0] \in {"+", "-"}
    THEN FAfterSign(text, text[p0] = "-", p0 + 1)
    ELSE FAfterSign(text, FALSE, p0)

StrToF(text) == FSign(text, SkipSpace(text, 1))

----------------------------------------------------------------------------
(***************************************************************************)
(* Documents (what libxml2 hands to the backend).                          *)
(***************************************************************************)
Attr(n, c) == [name |-> n, content |-> c]
Elem(n, props, children) == [name |-> n, props |-> props, children |-> children]

\* iio_ptr(err) / iio_err(ptr): a pointer that carries an error code
iio_ptr(err) == [err |-> err, ptr |-> NIL]
Ok(p) == [err |-> 0, ptr |-> <<p>>]

\* content of the last attribute called key, or NULL: what a loop over
\* n->properties that assigns on every match leaves in its variable
RECURSIVE LastProp(_, _, _)
LastProp(props, key, acc) ==
    IF Len(props) = 0 THEN acc
    ELSE LastProp(Tail(props), key,
                  IF props[1].name = key THEN props[1].content ELSE acc)

----------------------------------------------------------------------------
(***************************************************************************)
(* Objects.  zalloc() gives zeroed memory: NULL strings, zero numbers,     *)
(* false flags, empty lists.                                               *)
(***************************************************************************)
FloatZero == [kind |-> "zero", neg |-> FALSE]

ZeroFormat ==
    [length |-> Zero64, bits |-> Zero64, shift |-> Zero64, repeat |-> Zero64,
     is_signed |-> FALSE, is_fully_defined |-> FALSE, is_be |-> FALSE,
     with_scale |-> FALSE, scale |-> FloatZero]

ZeroChannel ==
    [id |-> NULL, name |-> NULL, is_output |-> FALSE, is_scan_element |-> FALSE,
     format |-> ZeroFormat, index |-> Zero64, attrs |-> <<>>]

ZeroDevice ==
    [id |-> NULL, name |-> NULL, label |-> NULL, attrs |-> <<>>,
     buffer_attrs |-> <<>>, debug_attrs |-> <<>>, channels |-> <<>>]

ZeroContext ==
    [name |-> NULL, description |-> NULL, major |-> Zero64, minor |-> Zero64,
     git_tag |-> NULL, devices |-> <<>>, attrs |-> <<>>]

----------------------------------------------------------------------------
(***************************************************************************)
(* add_attr_to_channel                                                     *)
(***************************************************************************)
\* name, filename: what the loop over the attributes left
\* a faulty variant: the new attribute is put before the others
PrependChannelAttr(chn, name, filename) ==
    IF name = NULL
    THEN [err |-> 0 - EINVAL, chn |-> chn]
    ELSE [err |-> 0,
          chn |-> [chn EXCEPT !.attrs =
                       <<[name |-> name,
                          filename |-> IF filename = NULL THEN name
                                       ELSE filename]>> \o @]]

AppendChannelAttr(chn, name, filename) ==
    IF name = NULL
    THEN [err |-> 0 - EINVAL, chn |-> chn]
    ELSE [err |-> 0,
          chn |-> [chn EXCEPT !.attrs =
                       Append(@, [name |-> name,
                                  filename |-> IF filename = NULL THEN name
                                               ELSE filename])]]

add_attr_to_channel(chn, n) ==
    AppendChannelAttr(chn, LastProp(n.props, "name", NULL),
                      LastProp(n.props, "filename", NULL))

(***************************************************************************)
(* add_iio_dev_attr (device.c): appends the name to the registry unless it *)
(* is there already.                                                       *)
(***************************************************************************)
add_iio_dev_attr(names, name) ==
    IF InSeq(names, name) THEN names ELSE Append(names, name)

(***************************************************************************)
(* add_attr_to_device, type one of "device", "debug", "buffer"             *)
(***************************************************************************)
AddDeviceAttr(dev, name, type) ==
    IF name = NULL THEN [err |-> 0 - EINVAL, dev |-> dev]
    ELSE IF type = "debug"
    THEN [err |-> 0, dev |-> [dev EXCEPT !.debug_attrs = add_iio_dev_attr(@, name)]]
    ELSE IF type = "device"
    THEN [err |-> 0, dev |-> [dev EXCEPT !.attrs = add_iio_dev_attr(@, name)]]
    ELSE IF type = "buffer"
    THEN [err |-> 0, dev |-> [dev EXCEPT !.buffer_attrs = add_iio_dev_attr(@, name)]]
    ELSE [err |-> 0 - EINVAL, dev |-> dev]

add_attr_to_device(dev, n, type) ==
    AddDeviceAttr(dev, LastProp(n.props, "name", NULL), type)

----------------------------------------------------------------------------
(***************************************************************************)
(* setup_scan_element                                                      *)
(***************************************************************************)
FormatRepeat == <<"%c", "e", ":", "%c", "%u", "/", "%u", "X", "%u", ">", ">", "%u">>
FormatNoRepeat == <<"%c", "e", ":", "%c", "%u", "/", "%u", ">", ">", "%u">>
FieldsRepeat == <<"bits", "length", "repeat", "shift">>
FieldsNoRepeat == <<"bits", "length", "shift">>

\* the checks on what strtoll returned, and the assignment of the index
IndexChecked(chn, r, lb) ==
    IF r.end = 1 \/ IsNeg64(r.value) \/ r.erange
    THEN [err |-> 0 - EINVAL, chn |-> chn]
    ELSE [err |-> 0, chn |-> [chn EXCEPT !.index = ToSigned(r.value, lb)]]

\* the index attribute
ScanIndex(chn, content, lb) == IndexChecked(chn, StrToInt(content, 0, 64), lb)

\* what sscanf has stored into the format when it returns: the k-th
\* conversion goes to the k-th field of `fields`, the first two to e and s
RECURSIVE StoreFields(_, _, _, _)
StoreFields(fmt, out, fields, k) ==
    IF k > Len(fields) \/ k + 2 > Len(out) THEN fmt
    ELSE StoreFields([fmt EXCEPT ![fields[k]] = out[k + 2]], out, fields, k + 1)

\* a faulty variant of FormatFlags that knows only the lower-case sign
FormatFlagsLower(f, e, sg) ==
    [f EXCEPT !.is_be = (e = "b"),
              !.is_signed = (sg = "s"),
              !.is_fully_defined = (sg = "S" \/ sg = "U" \/ f.bits = f.length)]

\* the flags derived from e, s and the stored fields
FormatFlags(f, e, sg) ==
    [f EXCEPT !.is_be = (e = "b"),
              !.is_signed = (sg = "s" \/ sg = "S"),
              !.is_fully_defined = (sg = "S" \/ sg = "U" \/ f.bits = f.length)]

\* r: what sscanf returned; f: the format with what sscanf stored; want:
\* the number of conversions of the format string
FormatChecked(chn, r, f, want) ==
    IF r.n # want
    THEN [err |-> 0 - EINVAL, chn |-> [chn EXCEPT !.format = f]]
    ELSE [err |-> 0, chn |-> [chn EXCEPT !.format = FormatFlags(f, r.out[1], r.out[2])]]

FormatScanned(chn, f0, r, fields) ==
    FormatChecked(chn, r, StoreFields(f0, r.out, fields, 1), Len(fields) + 2)

\* the format attribute
ScanFormat(chn, content) ==
    IF StrChr(content, "X")
    THEN FormatScanned(chn, chn.format, sscanf(content, FormatRepeat), FieldsRepeat)
    ELSE FormatScanned(chn, [chn.format EXCEPT !.repeat = W(1)],
                       sscanf(content, FormatNoRepeat), FieldsNoRepeat)

\* the checks on what strtof returned
ScaleChecked(chn, r) ==
    IF r.end = 1 \/ r.erange
    THEN [err |-> 0 - EINVAL, chn |-> [chn EXCEPT !.format.with_scale = FALSE]]
    ELSE [err |-> 0,
          chn |-> [chn EXCEPT !.format.with_scale = TRUE,
                              !.format.scale = r.value]]

\* the scale attribute
ScanScale(chn, content) == ScaleChecked(chn, StrToF(content))

\* one attribute of <scan-element>
ScanElementAttr(chn, name, content, lb) ==
    IF name = "index" THEN ScanIndex(chn, content, lb)
    ELSE IF name = "format" THEN ScanFormat(chn, content)
    ELSE IF name = "scale" THEN ScanScale(chn, content)
    ELSE [err |-> 0, chn |-> chn]

RECURSIVE ScanElementAttrs(_, _, _, _)
RECURSIVE ScanElementNext(_, _, _, _)
ScanElementAttrs(chn, props, k, lb) ==
    IF k > Len(props) THEN [err |-> 0, chn |-> chn]
    ELSE ScanElementNext(ScanElementAttr(chn, props[k].name, props[k].content, lb),
                         props, k, lb)
\* r: the outcome of attribute k
ScanElementNext(r, props, k, lb) ==
    IF r.err # 0 THEN r ELSE ScanElementAttrs(r.chn, props, k + 1, lb)

setup_scan_element(chn, n, lb) == ScanElementAttrs(chn, n.props, 1, lb)

----------------------------------------------------------------------------
(***************************************************************************)
(* create_channel                                                          *)
(***************************************************************************)
\* iio_channel_init_finalize (channel.c) derives the channel's type and
\* modifier from its id; it changes no field modelled here
iio_channel_init_finalize(chn) == chn

ChannelProp(chn, name, content) ==
    IF name = "name" THEN [chn EXCEPT !.name = content]
    ELSE IF name = "id" THEN [chn EXCEPT !.id = content]
    ELSE IF name = "type" /\ content = <<"o", "u", "t", "p", "u", "t">>
    THEN [chn EXCEPT !.is_output = TRUE]
    ELSE chn

\* the loop over the attributes of <channel>
RECURSIVE ChannelProps(_, _)
ChannelProps(chn, props) ==
    IF Len(props) = 0 THEN chn
    ELSE ChannelProps(ChannelProp(chn, props[1].name, props[1].content), Tail(props))

\* a faulty variant of ChannelChild that refuses a child it does not know
ChannelChildStrict(chn, n, lb) ==
    IF n.name = "attribute" THEN add_attr_to_channel(chn, n)
    ELSE IF n.name = "scan-element"
    THEN setup_scan_element([chn EXCEPT !.is_scan_element = TRUE], n, lb)
    ELSE [err |-> 0 - EINVAL, chn |-> chn]

\* one child of <channel>
ChannelChild(chn, n, lb) ==
    IF n.name = "attribute" THEN add_attr_to_channel(chn, n)
    ELSE IF n.name = "scan-element"
    THEN setup_scan_element([chn EXCEPT !.is_scan_element = TRUE], n, lb)
    ELSE [err |-> 0, chn |-> chn]

\* the loop over the children of <channel>
RECURSIVE ChannelChildren(_, _, _, _)
RECURSIVE ChannelNext(_, _, _, _)
ChannelChildren(chn, children, k, lb) ==
    IF k > Len(children) THEN [err |-> 0, chn |-> chn]
    ELSE ChannelNext(ChannelChild(chn, children[k], lb), children, k, lb)
\* r: the outcome of child k
ChannelNext(r, children, k, lb) ==
    IF r.err < 0 THEN r ELSE ChannelChildren(r.chn, children, k + 1, lb)

\* a faulty variant of DefaultIndex: -1
MinusOne == WNeg(1)

\* the default index of a new channel
DefaultIndex == WNeg(ENOENT)

\* r: the outcome of the loop over the children
ChannelDone(r) ==
    IF r.err < 0 THEN iio_ptr(r.err) ELSE Ok(iio_channel_init_finalize(r.chn))

\* c0: the channel after the loop over the attributes
ChannelBody(c0, n, lb) ==
    IF c0.id = NULL THEN iio_ptr(0 - EINVAL)
    ELSE ChannelDone(ChannelChildren(c0, n.children, 1, lb))

create_channel(n, lb) ==
    ChannelBody(ChannelProps([ZeroChannel EXCEPT !.index = DefaultIndex], n.props),
                n, lb)

----------------------------------------------------------------------------
(***************************************************************************)
(* create_device                                                           *)
(***************************************************************************)
DeviceProp(dev, name, content) ==
    IF name = "name" THEN [dev EXCEPT !.name = content]
    ELSE IF name = "label" THEN [dev EXCEPT !.label = content]
    ELSE IF name = "id" THEN [dev EXCEPT !.id = content]
    ELSE dev

\* the loop over the attributes of <device>
RECURSIVE DeviceProps(_, _)
DeviceProps(dev, props) ==
    IF Len(props) = 0 THEN dev
    ELSE DeviceProps(DeviceProp(dev, props[1].name, props[1].content), Tail(props))

\* a faulty variant of AppendChannel that goes on after a channel failed
AppendChannelLossy(dev, c) ==
    IF c.err # 0 THEN [err |-> 0, dev |-> dev]
    ELSE [err |-> 0, dev |-> [dev EXCEPT !.channels = Append(@, c.ptr[1])]]

\* c: what create_channel returned; the channel is appended to dev->channels
AppendChannel(dev, c) ==
    IF c.err # 0 THEN [err |-> c.err, dev |-> dev]
    ELSE [err |-> 0, dev |-> [dev EXCEPT !.channels = Append(@, c.ptr[1])]]

\* one child of <device>
DeviceChild(dev, n, lb) ==
    IF n.name = "channel" THEN AppendChannel(dev, create_channel(n, lb))
    ELSE IF n.name = "attribute" THEN add_attr_to_device(dev, n, "device")
    ELSE IF n.name = "debug-attribute" THEN add_attr_to_device(dev, n, "debug")
    ELSE IF n.name = "buffer-attribute" THEN add_attr_to_device(dev, n, "buffer")
    ELSE [err |-> 0, dev |-> dev]

\* the loop over the children of <device>
RECURSIVE DeviceChildren(_, _, _, _)
RECURSIVE DeviceNext(_, _, _, _)
DeviceChildren(dev, children, k, lb) ==
    IF k > Len(children) THEN [err |-> 0, dev |-> dev]
    ELSE DeviceNext(DeviceChild(dev, children[k], lb), children, k, lb)
\* r: the outcome of child k
DeviceNext(r, children, k, lb) ==
    IF r.err # 0 THEN r ELSE DeviceChildren(r.dev, children, k + 1, lb)

\* r: the outcome of the loop over the children
DeviceDone(r) == IF r.err # 0 THEN iio_ptr(r.err) ELSE Ok(r.dev)

\* d0: the device after the loop over the attributes
DeviceBody(d0, n, lb) ==
    IF d0.id = NULL THEN iio_ptr(0 - EINVAL)
    ELSE DeviceDone(DeviceChildren(d0, n.children, 1, lb))

create_device(n, lb) == DeviceBody(DeviceProps(ZeroDevice, n.props), n, lb)

----------------------------------------------------------------------------
(***************************************************************************)
(* Context helpers of context.c, not part of the XML backend.              *)
(***************************************************************************)
\* iio_context_add_attr: a key already present keeps its first value
iio_context_add_attr(c, key, value) ==
    IF \E i \in 1..Len(c.attrs) : c.attrs[i].name = key
    THEN [err |-> 0, ctx |-> c]
    ELSE [err |-> 0,
          ctx |-> [c EXCEPT !.attrs = Append(@, [name |-> key, value |-> value])]]

\* iio_context_add_device: appends the device to ctx->devices
iio_context_add_device(c, dev) ==
    [err |-> 0, ctx |-> [c EXCEPT !.devices = Append(@, dev)]]

\* iio_context_create_from_backend: a zeroed context with the backend's
\* name and a copy of the description
iio_context_create_from_backend(backend, descr) ==
    Ok([ZeroContext EXCEPT !.name = backend, !.description = descr])

\* iio_context_init: finalisation of the finished context
iio_context_init(c) == [err |-> 0, ctx |-> c]

(***************************************************************************)
(* parse_context_attr                                                      *)
(***************************************************************************)
\* name, value: what the loop over the attributes left
AddContextAttr(c, name, value) ==
    IF name = NULL \/ value = NULL THEN [err |-> 0 - EINVAL, ctx |-> c]
    ELSE iio_context_add_attr(c, name, value)

parse_context_attr(c, n) ==
    AddContextAttr(c, LastProp(n.props, "name", NULL), LastProp(n.props, "value", NULL))

(***************************************************************************)
(* One iteration of the loop of iio_populate_xml_context_helper, on child  *)
(* n of the root.                                                          *)
(***************************************************************************)
\* d: what create_device returned
AddDevice(c, d) ==
    IF d.err # 0 THEN [err |-> d.err, ctx |-> c]
    ELSE iio_context_add_device(c, d.ptr[1])

PopulateDevice(c, n, lb) == AddDevice(c, create_device(n, lb))

PopulateChild(c, n, lb) ==
    IF n.name = "context-attribute" THEN parse_context_attr(c, n)
    ELSE IF n.name # "device" THEN [err |-> 0, ctx |-> c]
    ELSE PopulateDevice(c, n, lb)

(***************************************************************************)
(* The loop over the attributes of <context> in                            *)
(* iio_create_xml_context_helper: the locals it leaves and the warnings.   *)
(***************************************************************************)
WarnMajor == "invalid format for major version"
WarnMinor == "invalid format for minor version"

\* r: what strtol(content, &end, 10) returned; the warning when *end is not
\* the end of the text
VersionParsed(l, field, warning, content, r) ==
    [l EXCEPT ![field] = r.value,
              !.warnings = IF CharAt(content, r.end) # "\\0"
                           THEN Append(@, warning) ELSE @]

\* one attribute of <context>
RootProp(l, name, content, lb) ==
    IF name = "description" THEN [l EXCEPT !.description = content]
    ELSE IF name = "version-major"
    THEN VersionParsed(l, "major", WarnMajor, content, StrToInt(content, 10, lb))
    ELSE IF name = "version-minor"
    THEN VersionParsed(l, "minor", WarnMinor, content, StrToInt(content, 10, lb))
    ELSE IF name = "version-git" THEN [l EXCEPT !.git_tag = content]
    ELSE l

RECURSIVE RootProps(_, _, _)
RootProps(l, props, lb) ==
    IF Len(props) = 0 THEN l
    ELSE RootProps(RootProp(l, props[1].name, props[1].content, lb), Tail(props), lb)

\* the assignments under if (git_tag)
SetVersion(c, maj, min, tag) ==
    IF tag # NULL
    THEN [c EXCEPT !.major = ToUInt(maj), !.minor = ToUInt(min), !.git_tag = tag]
    ELSE c

\* the locals of iio_create_xml_context_helper as declared
InitLoc ==
    [description |-> NULL, git_tag |-> NULL, major |-> Zero64, minor |-> Zero64,
     warnings |-> <<>>]

\* the name of the XML backend
XmlBackend == <<"x", "m", "l">>

----------------------------------------------------------------------------
(***************************************************************************)
(* The builder as a state machine: iio_create_xml_context_helper, with the *)
(* loop of iio_populate_xml_context_helper one child per step.             *)
(***************************************************************************)
\* a faulty variant of IsContextRoot that takes any root
AnyRoot(root) == root.name = root.name

\* strcmp((char *) root->name, "context") == 0
IsContextRoot(root) == root.name = "context"

\* the root element must be <context>
CheckRoot ==
    /\ pc = "root"
    /\ IF ~IsContextRoot(doc)
       THEN /\ ret' = iio_ptr(0 - EINVAL)
            /\ stepErr' = 0 - EINVAL
            /\ pc' = "done"
       ELSE /\ pc' = "attrs"
            /\ UNCHANGED <<ret, stepErr>>
    /\ UNCHANGED <<doc, longBits, round, prev, loc, warnings, ctx, nchild,
                   created, destroyed, maskVars, memVars>>

\* the loop over the attributes of <context>; l: the locals it leaves
RootAttrsRead(l) ==
    /\ loc' = [l EXCEPT !.warnings = <<>>]
    /\ warnings' = warnings \o l.warnings

ReadRootAttrs ==
    /\ pc = "attrs"
    /\ RootAttrsRead(RootProps(InitLoc, doc.props, longBits))
    /\ pc' = "create"
    /\ UNCHANGED <<doc, longBits, round, prev, ctx, nchild, stepErr, created,
                   destroyed, ret, maskVars, memVars>>

\* iio_context_create_from_backend, then the version under if (git_tag)
ContextCreated(c) ==
    ctx' = <<SetVersion(c.ptr[1], loc.major, loc.minor, loc.git_tag)>>

CreateContext ==
    /\ pc = "create"
    /\ ContextCreated(iio_context_create_from_backend(XmlBackend, loc.description))
    /\ created' = created + 1
    /\ nchild' = 1
    /\ pc' = "populate"
    /\ UNCHANGED <<doc, longBits, round, prev, loc, warnings, stepErr,
                   destroyed, ret, maskVars, memVars>>

\* r: the outcome of one child of the root; on an error the helper destroys
\* the context and returns the error
Populated(r) ==
    IF r.err # 0
    THEN /\ stepErr' = r.err
         /\ ctx' = NIL
         /\ destroyed' = destroyed + 1
         /\ ret' = iio_ptr(r.err)
         /\ pc' = "done"
         /\ UNCHANGED nchild
    ELSE /\ ctx' = <<r.ctx>>
         /\ nchild' = nchild + 1
         /\ UNCHANGED <<stepErr, destroyed, ret, pc>>

Populate ==
    /\ pc = "populate"
    /\ nchild <= Len(doc.children)
    /\ Populated(PopulateChild(ctx[1], doc.children[nchild], longBits))
    /\ UNCHANGED <<doc, longBits, round, prev, loc, warnings, created, maskVars, memVars>>

\* r: the outcome of iio_context_init
Finished(r) ==
    IF r.err # 0
    THEN /\ stepErr' = r.err
         /\ ctx' = NIL
         /\ destroyed' = destroyed + 1
         /\ ret' = iio_ptr(r.err)
    ELSE /\ ret' = Ok(r.ctx)
         /\ ctx' = <<r.ctx>>
         /\ UNCHANGED <<stepErr, destroyed>>

\* after the last child: iio_context_init, and the context is returned
Finish ==
    /\ pc = "populate"
    /\ nchild > Len(doc.children)
    /\ Finished(iio_context_init(ctx[1]))
    /\ pc' = "done"
    /\ UNCHANGED <<doc, longBits, round, prev, loc, warnings, nchild, created,
                   maskVars, memVars>>

----------------------------------------------------------------------------
(***************************************************************************)
(* The documents the builder is run on.                                    *)
(***************************************************************************)
MaxSiblings == 1        \* well-formed siblings placed before the probed element
MaxIndexLen == 2        \* length of the index texts drawn over IndexAlphabet
MaxScaleLen == 2        \* length of the scale texts drawn over ScaleAlphabet
MaxVersionLen == 2      \* length of the version texts drawn over VersionAlphabet

\* all texts over an alphabet, up to a length.  The texts are not empty: the
\* backend reads attr->children->content, the text child of the attribute,
\* which is there when the value is not empty
Texts(alphabet, n) == UNION {[1..k -> alphabet] : k \in 1..n}

IndexAlphabet == {"0", "1", "9", "-", "+", " ", "x", "a"}
ScaleAlphabet == {"0", "1", "5", ".", "e", "-", "z", " "}
VersionAlphabet == {"0", "1", "7", "-", "a", " "}

\* texts at the limits of long long, long and unsigned int
WideTexts ==
    {<<"9", "2", "2", "3", "3", "7", "2", "0", "3", "6", "8", "5", "4", "7", "7", "5", "8", "0", "7">>,
     <<"9", "2", "2", "3", "3", "7", "2", "0", "3", "6", "8", "5", "4", "7", "7", "5", "8", "0", "8">>,
     <<"9", "9", "9", "9", "9", "9", "9", "9", "9", "9", "9", "9", "9", "9", "9", "9", "9", "9", "9", "9">>,
     <<"2", "1", "4", "7", "4", "8", "3", "6", "4", "8">>,
     <<"2", "1", "4", "7", "4", "8", "3", "6", "4", "7">>,
     <<"4", "2", "9", "4", "9", "6", "7", "2", "9", "6">>,
     <<"4", "2", "9", "4", "9", "6", "7", "3", "0", "3">>,
     <<"-", "1">>}

IndexTexts == Texts(IndexAlphabet, MaxIndexLen) \cup WideTexts
    \cup {<<"1", "2", "a", "b", "c">>, <<"0", "x", "1", "0">>, <<"0", "1", "0">>, <<"4", "2">>}

VersionTexts == Texts(VersionAlphabet, MaxVersionLen) \cup WideTexts
    \cup {<<"1", "2", "a", "b", "c">>, <<"4", "2">>}

ScaleTexts == Texts(ScaleAlphabet, MaxScaleLen)
    \cup {<<"1", ".", "5">>, <<"1", ".", "5", "z">>, <<"1", "e", "3", "9">>, <<"1", "e", "-", "5", "0">>, <<"-", "2", ".", "5", "e", "-", "3">>, <<"i", "n", "f">>, <<"n", "a", "n">>,
          <<"1", "e", "1">>, <<"4", "e", "3", "8">>, <<"3", "e", "3", "8">>, <<"a", "b", "c">>, <<"1", "e">>}

\* format descriptors: every well-formed combination of the parts, and the
\* two examples of the specification damaged in one place
FmtEndian == {"b", "l"}
FmtSign == {"s", "S", "u", "U"}
FmtNumbers == {<<"8">>, <<"1", "2">>, <<"1", "6">>}
FmtRepeats == {<<>>, <<"X", "1">>, <<"X", "4">>}
FmtShifts == {<<"0">>, <<"2">>}

FormatText(e, sg, b, l, r, h) ==
    <<e, "e", ":", sg>> \o b \o <<"/">> \o l \o r \o <<">", ">">> \o h

WellFormedFormats ==
    {FormatText(e, sg, b, l, r, h) :
        e \in FmtEndian, sg \in FmtSign, b \in FmtNumbers, l \in FmtNumbers,
        r \in FmtRepeats, h \in FmtShifts}

ExampleBE == <<"b", "e", ":", "s", "1", "6", "/", "1", "6", ">", ">", "0">>
ExampleLE == <<"l", "e", ":", "u", "1", "2", "/", "1", "6", "X", "4", ">", ">", "2">>
FmtNoise == {"z", "X", " ", "-", "9", ":"}

DropAt(t, i) == SubSeq(t, 1, i - 1) \o SubSeq(t, i + 1, Len(t))
PutAt(t, i, c) == [t EXCEPT ![i] = c]

DamagedFormats ==
    UNION {{DropAt(t, i) : i \in 1..Len(t)}
           \cup {PutAt(t, i, c) : i \in 1..Len(t), c \in FmtNoise}
           \cup {t \o <<c>> : c \in FmtNoise}
           \cup {<<c>> \o t : c \in FmtNoise}
           : t \in {ExampleBE, ExampleLE}}
    \cup {<<"g", "a", "r", "b", "a", "g", "e">>, <<"l", "e", ":", "s", "-", "1", "/", "1", "6", ">", ">", "0">>}

FormatTexts == WellFormedFormats \cup DamagedFormats

\* names and values
Id(c, k) == <<c, DecDigits[k + 1]>>
RawName == <<"r", "a", "w">>
RawFile == <<"i", "n", "_", "r", "a", "w">>
Output == <<"o", "u", "t", "p", "u", "t">>
Input == <<"i", "n", "p", "u", "t">>
Sideways == <<"s", "i", "d", "e", "w", "a", "y", "s">>

\* what a later version of the schema may add
UnknownAttr == Attr("vendor", <<"v">>)
\* an unknown element; the malformed <device> inside it is never visited
UnknownElem == Elem("vendor", <<UnknownAttr>>, <<Elem("device", <<>>, <<>>)>>)
\* a text node of libxml2
TextNode == Elem("text", <<>>, <<>>)

ScanElement(props) == Elem("scan-element", props, <<>>)
ChanAttr(props) == Elem("attribute", props, <<>>)

\* a well-formed channel with an attribute and a scan-element
GoodChannel(k) ==
    Elem("channel", <<Attr("id", Id("c", k)), Attr("name", RawName)>>,
         <<ChanAttr(<<Attr("name", RawName)>>),
           ScanElement(<<Attr("index", <<DecDigits[k + 1]>>),
                         Attr("format", ExampleLE)>>)>>)
\* n well-formed channels numbered from a + 1
GoodChannels(a, n) == [k \in 1..n |-> GoodChannel(a + k)]

\* channels that probe one case each
ProbeChannels ==
    {Elem("channel", props, <<>>) :
        props \in {<<Attr("id", Id("p", 0))>>,
                   <<>>,
                   <<Attr("name", RawName)>>,
                   <<Attr("name", RawName), Attr("id", Id("p", 0)), Attr("type", Output)>>,
                   <<Attr("id", Id("p", 0)), Attr("type", Input)>>,
                   <<Attr("type", Sideways), Attr("id", Id("p", 0))>>,
                   <<UnknownAttr, Attr("id", Id("p", 0))>>}}
    \cup
    {Elem("channel", <<Attr("id", Id("p", 0))>>, children) :
        children \in {<<ChanAttr(<<>>)>>,
                      <<ChanAttr(<<Attr("filename", RawFile)>>)>>,
                      <<ChanAttr(<<Attr("name", RawName), Attr("filename", RawFile)>>)>>,
                      <<ChanAttr(<<Attr("filename", RawFile), Attr("name", RawName)>>),
                        ChanAttr(<<Attr("name", RawFile)>>)>>,
                      <<ScanElement(<<>>)>>,
                      <<ScanElement(<<Attr("scale", <<"1", ".", "5">>)>>)>>,
                      <<ScanElement(<<Attr("format", ExampleBE)>>)>>,
                      <<ScanElement(<<Attr("index", <<"7">>), Attr("scale", <<"1", ".", "5">>),
                                      Attr("format", ExampleBE)>>)>>,
                      <<ScanElement(<<Attr("index", <<"-", "1">>)>>)>>,
                      <<ScanElement(<<Attr("format", <<"g", "a", "r", "b", "a", "g", "e">>)>>)>>,
                      <<ScanElement(<<Attr("scale", <<"a", "b", "c">>)>>)>>,
                      <<ScanElement(<<Attr("scale", <<"1", ".", "5">>), Attr("index", <<"a", "b", "c">>)>>)>>,
                      <<UnknownElem>>,
                      <<TextNode, ChanAttr(<<Attr("name", RawName)>>), TextNode>>}}

DevAttr(kind, props) == Elem(kind, props, <<>>)
DevAttrKinds == {"attribute", "debug-attribute", "buffer-attribute"}

\* children of a device that probe one case each
ProbeDeviceNodes ==
    ProbeChannels
    \cup {DevAttr(kind, <<Attr("name", RawName)>>) : kind \in DevAttrKinds}
    \cup {DevAttr(kind, <<>>) : kind \in DevAttrKinds}
    \cup {DevAttr("attribute", <<UnknownAttr, Attr("name", RawFile)>>),
          UnknownElem, TextNode}

DeviceProps0 == <<Attr("id", Id("q", 0))>>

\* a well-formed device
GoodDevice(k) ==
    Elem("device", <<Attr("id", Id("d", k)), Attr("name", RawName)>>,
         <<DevAttr("attribute", <<Attr("name", RawName)>>), GoodChannel(k)>>)
\* n well-formed devices numbered from a + 1
GoodDevices(a, n) == [k \in 1..n |-> GoodDevice(a + k)]

ProbeDevices ==
    {Elem("device", DeviceProps0, GoodChannels(0, g) \o <<n>> \o GoodChannels(g, t)) :
        g \in 0..MaxSiblings, t \in 0..1, n \in ProbeDeviceNodes}
    \cup
    {Elem("device", props, <<GoodChannel(1)>>) :
        props \in {<<>>,
                   <<Attr("name", RawName), Attr("label", RawFile)>>,
                   <<Attr("name", RawName), Attr("label", RawFile),
                     Attr("id", Id("q", 0))>>,
                   <<UnknownAttr, Attr("id", Id("q", 0))>>}}

CtxAttr(props) == Elem("context-attribute", props, <<>>)

\* children of the root that probe one case each
ProbeTopNodes ==
    ProbeDevices
    \cup {CtxAttr(props) :
            props \in {<<Attr("name", RawName), Attr("value", RawFile)>>,
                       <<Attr("value", RawFile), UnknownAttr, Attr("name", RawName)>>,
                       <<Attr("name", RawName)>>,
                       <<Attr("value", RawFile)>>,
                       <<>>}}
    \cup {UnknownElem, TextNode}

RootProps0 ==
    <<Attr("description", RawName), Attr("version-major", <<"1">>),
      Attr("version-minor", <<"0">>), Attr("version-git", <<"v">>)>>

\* the structure of the document: well-formed devices, then one probe, then
\* at most one more well-formed device
StructDocs ==
    {Elem("context", RootProps0, GoodDevices(0, g) \o <<n>> \o GoodDevices(g, t)) :
        g \in 0..MaxSiblings, t \in 0..1, n \in ProbeTopNodes}
    \cup {Elem(root, RootProps0, GoodDevices(0, g)) :
            root \in {"context", "iio", "device"}, g \in 0..MaxSiblings}

\* one device with one channel whose scan-element has the given attributes
ScanDoc(props) ==
    Elem("context", RootProps0,
         <<Elem("device", DeviceProps0,
                <<Elem("channel", <<Attr("id", Id("p", 0))>>,
                       <<ScanElement(props)>>)>>)>>)

TextDocs ==
    {ScanDoc(<<Attr("index", t)>>) : t \in IndexTexts}
    \cup {ScanDoc(<<Attr("format", t)>>) : t \in FormatTexts}
    \cup {ScanDoc(<<Attr("scale", t)>>) : t \in ScaleTexts}

\* the attributes of <context>
VersionDocs ==
    {Elem("context", props, <<GoodDevice(1)>>) :
        props \in {<<Attr("version-major", t), Attr("version-git", <<"v">>)>> :
                      t \in VersionTexts}
                  \cup {<<Attr("version-git", <<"v">>), Attr("version-minor", t)>> :
                          t \in VersionTexts}
                  \cup {<<Attr("version-major", t), Attr("version-minor", t)>> :
                          t \in VersionTexts}
                  \cup {<<>>, <<Attr("name", RawName), UnknownAttr>>,
                        <<Attr("version-git", <<"v">>)>>}}

Docs == StructDocs \cup TextDocs \cup VersionDocs

----------------------------------------------------------------------------
(***************************************************************************)
(* Extensions of a document: an attribute or a child that the schema does  *)
(* not know, added to every element of one kind.                           *)
(***************************************************************************)
ExtraAttr == Attr("extra", <<"1">>)
ExtraElem == Elem("extra", <<Attr("id", <<"e">>)>>, <<Elem("channel", <<>>, <<>>)>>)

AttrTargets == {"context", "device", "channel", "attribute", "scan-element"}
ChildTargets == {"context", "device", "channel"}

Extensions ==
    [target : AttrTargets, what : {"attr"}, front : BOOLEAN]
    \cup [target : ChildTargets, what : {"elem", "text"}, front : BOOLEAN]

AddTo(seq, x, front) == IF front THEN <<x>> \o seq ELSE Append(seq, x)

\* the extension applied to node n itself
ExtendHere(n, e) ==
    IF e.what = "attr" THEN [n EXCEPT !.props = AddTo(@, ExtraAttr, e.front)]
    ELSE IF e.what = "elem" THEN [n EXCEPT !.children = AddTo(@, ExtraElem, e.front)]
    ELSE [n EXCEPT !.children = AddTo(@, TextNode, e.front)]

\* the kind of element a child is, seen from its parent's kind ("" when the
\* builder does not visit it)
KindOf(parent, name) ==
    IF parent = "context" /\ name = "device" THEN "device"
    ELSE IF parent = "context" /\ name = "context-attribute" THEN "attribute"
    ELSE IF parent = "device" /\ name = "channel" THEN "channel"
    ELSE IF parent = "device" /\ name \in DevAttrKinds THEN "attribute"
    ELSE IF parent = "channel" /\ name = "attribute" THEN "attribute"
    ELSE IF parent = "channel" /\ name = "scan-element" THEN "scan-element"
    ELSE ""

RECURSIVE ExtendNode(_, _, _)
RECURSIVE ExtendChild(_, _, _)
\* child c, of kind k
ExtendChild(c, k, e) == IF k = "" THEN c ELSE ExtendNode(c, k, e)

\* m: the node with its children extended
ExtendSelf(m, kind, e) == IF kind = e.target THEN ExtendHere(m, e) ELSE m

ExtendNode(n, kind, e) ==
    ExtendSelf([n EXCEPT !.children =
                   [i \in 1..Len(n.children) |->
                       ExtendChild(n.children[i], KindOf(kind, n.children[i].name), e)]],
               kind, e)

ApplyExtension(d, e) == ExtendNode(d, "context", e)

\* the successful build is kept and the builder runs again, on the document
\* with one extension
Extend ==
    /\ pc = "done"
    /\ round = 1
    /\ ret.err = 0
    /\ \E e \in Extensions : doc' = ApplyExtension(doc, e)
    /\ prev' = <<[doc |-> doc, ret |-> ret, warnings |-> warnings]>>
    /\ round' = 2
    /\ pc' = "root"
    /\ loc' = InitLoc
    /\ warnings' = <<>>
    /\ ctx' = NIL
    /\ nchild' = 0
    /\ stepErr' = 0
    /\ created' = 0
    /\ destroyed' = 0
    /\ ret' = NIL
    /\ UNCHANGED <<longBits, maskVars, memVars>>

----------------------------------------------------------------------------
(***************************************************************************)
(* Channels mask.  A word is a uint32_t, kept as its 32 bits, bit 0 first. *)
(***************************************************************************)
MaskBits == 70          \* number of channels of the mask

WordBits == 0..31
ZeroWord == [b \in WordBits |-> 0]

\* BIT(x): 1 << x in int; x is below 32 in every use.  For x = 31 the shift
\* overflows int; gcc, clang and MSVC give the sign bit, and the conversion
\* to uint32_t keeps the bit pattern
BIT(x) == [b \in WordBits |-> IF b = x THEN 1 ELSE 0]
BIT_MASK(bit) == BIT(bit % 32)
\* a faulty variant of BIT_WORD for words of 64 bits
BitWordWide(bit) == bit \div 64
BIT_WORD(bit) == bit \div 32

WordAnd(a, b) == [i \in WordBits |-> IF a[i] = 1 /\ b[i] = 1 THEN 1 ELSE 0]
WordOr(a, b) == [i \in WordBits |-> IF a[i] = 1 \/ b[i] = 1 THEN 1 ELSE 0]
WordNot(a) == [i \in WordBits |-> 1 - a[i]]

\* iio_create_channels_mask (mask.c): ceil(nb_channels / 32) zeroed words;
\* word w of the C array is element w + 1 here
iio_create_channels_mask(nb_channels) ==
    [w \in 1..((nb_channels + 31) \div 32) |-> ZeroWord]

iio_channels_mask_test_bit(m, bit) ==
    WordAnd(m[BIT_WORD(bit) + 1], BIT_MASK(bit)) # ZeroWord

iio_channels_mask_set_bit(m, bit) ==
    [m EXCEPT ![BIT_WORD(bit) + 1] = WordOr(@, BIT_MASK(bit))]

iio_channels_mask_clear_bit(m, bit) ==
    [m EXCEPT ![BIT_WORD(bit) + 1] = WordAnd(@, WordNot(BIT_MASK(bit)))]

\* the bits the operations are applied to: the first two and the last bit of
\* every word, and the last bit of the mask
TestedBits ==
    {b \in 0..(MaskBits - 1) : b % 32 \in {0, 1, 31} \/ b = MaskBits - 1}

SetBit(b) ==
    /\ mask' = iio_channels_mask_set_bit(mask, b)
    /\ lastOp' = [lastOp EXCEPT ![b] = "set"]
    /\ UNCHANGED <<buildVars, memVars>>

ClearBit(b) ==
    /\ mask' = iio_channels_mask_clear_bit(mask, b)
    /\ lastOp' = [lastOp EXCEPT ![b] = "clear"]
    /\ UNCHANGED <<buildVars, memVars>>

----------------------------------------------------------------------------
(***************************************************************************)
(* Specifications.                                                         *)
(***************************************************************************)
InitBuild ==
    /\ round = 1
    /\ prev = NIL
    /\ pc = "root"
    /\ loc = InitLoc
    /\ warnings = <<>>
    /\ ctx = NIL
    /\ nchild = 0
    /\ stepErr = 0
    /\ created = 0
    /\ destroyed = 0
    /\ ret = NIL

InitMask ==
    /\ mask = iio_create_channels_mask(MaskBits)
    /\ lastOp = [b \in 0..(MaskBits - 1) |-> "none"]

\* the heap before the build: nothing allocated, no object under construction
NoObjects ==
    [ctx |-> {}, ctxDevices |-> 0, dev |-> {}, devSelf |-> 0, devChannels |-> 0,
     chn |-> {}, chnSelf |-> 0, chnAttrs |-> 0]

InitMem ==
    /\ mpc = "start"
    /\ pos = [i |-> 0, j |-> 0, k |-> 0]
    /\ nblocks = 0
    /\ live = {}
    /\ misfreed = {}
    /\ own = NoObjects
    /\ mret = 0

\* the builder, on every document of Docs, on both widths of long
Init ==
    /\ doc \in Docs
    /\ longBits \in {32, 64}
    /\ InitBuild
    /\ InitMask
    /\ InitMem

Next ==
    \/ CheckRoot
    \/ ReadRootAttrs
    \/ CreateContext
    \/ Populate
    \/ Finish
    \/ Extend

Spec == Init /\ [][Next]_vars

\* the mask operations, on a mask of MaskBits bits
MaskInit ==
    /\ doc = Elem("context", <<>>, <<>>)
    /\ longBits = 64
    /\ InitBuild
    /\ InitMask
    /\ InitMem

MaskNext ==
    \E b \in TestedBits : SetBit(b) \/ ClearBit(b)

MaskSpec == MaskInit /\ [][MaskNext]_vars

----------------------------------------------------------------------------
(***************************************************************************)
(* What the properties speak of: the elements the builder visits and the   *)
(* objects built from them.  Devices and channels are appended in document *)
(* order, so the i-th <device> of the root is the i-th device of the       *)
(* context and its j-th <channel> the j-th channel of that device.         *)
(***************************************************************************)
Named(nodes, name) == SelectSeq(nodes, LAMBDA n : n.name = name)
Among(nodes, names) == {nodes[k] : k \in {k \in 1..Len(nodes) : nodes[k].name \in names}}
HasProp(n, key) == \E k \in 1..Len(n.props) : n.props[k].name = key
PropsOf(n) == {n.props[k] : k \in 1..Len(n.props)}

DeviceNodes == Named(doc.children, "device")
ChannelNodes(i) == Named(DeviceNodes[i].children, "channel")

\* the build is over; it is over and has returned a context
Done == pc = "done"
Built == pc = "done" /\ ret.err = 0
BuiltChannel(i, j) == ret.ptr[1].devices[i].channels[j]

\* the <channel> elements under a <device> of the root
VisitedChannels == UNION {Among(dn.children, {"channel"}) : dn \in Among(doc.children, {"device"})}

\* the texts of the attribute `key` on the scan-elements of channel element cn
ScanTexts(cn, key) ==
    {a.content : a \in {a \in UNION {PropsOf(sn) : sn \in Among(cn.children, {"scan-element"})} :
                           a.name = key}}

\* an element that lacks what the schema requires of it
LacksId(n) == ~HasProp(n, "id")
LacksName(n) == ~HasProp(n, "name")

DefectiveChannel(cn) ==
    LacksId(cn) \/ \E an \in Among(cn.children, {"attribute"}) : LacksName(an)

DefectiveDevice(dn) ==
    \/ LacksId(dn)
    \/ \E an \in Among(dn.children, DevAttrKinds) : LacksName(an)
    \/ \E cn \in Among(dn.children, {"channel"}) : DefectiveChannel(cn)

Defective ==
    \/ \E dn \in Among(doc.children, {"device"}) : DefectiveDevice(dn)
    \/ \E an \in Among(doc.children, {"context-attribute"}) :
          LacksName(an) \/ ~HasProp(an, "value")

\* a step of the build, run on its own, returns an error
ChannelStepFails(cn) ==
    \/ create_channel(cn, longBits).err # 0
    \/ \E an \in Among(cn.children, {"attribute"}) :
          add_attr_to_channel(ZeroChannel, an).err # 0
    \/ \E sn \in Among(cn.children, {"scan-element"}) :
          setup_scan_element(ZeroChannel, sn, longBits).err # 0

DeviceStepFails(dn) ==
    \/ create_device(dn, longBits).err # 0
    \/ \E an \in Among(dn.children, DevAttrKinds) :
          add_attr_to_device(ZeroDevice, an, "device").err # 0
    \/ \E cn \in Among(dn.children, {"channel"}) : ChannelStepFails(cn)

SomeStepFails ==
    \/ \E dn \in Among(doc.children, {"device"}) : DeviceStepFails(dn)
    \/ \E an \in Among(doc.children, {"context-attribute"}) :
          parse_context_attr(ZeroContext, an).err # 0

----------------------------------------------------------------------------
(***************************************************************************)
(* The memory view of the build: the same walk over the document, reduced  *)
(* to what it allocates and releases.  A heap block is a natural number;   *)
(* every zalloc, iio_strdup or first realloc that succeeds hands out the   *)
(* next one.  A step tries its allocations in program order; f is the one  *)
(* that fails (0: none does).  The attribute names of an element are       *)
(* distinct, as XML requires, so no string field is assigned twice.  A     *)
(* realloc that grows an existing array keeps its block.                   *)
(***************************************************************************)
Heap == [live |-> live, mis |-> misfreed]
Fresh(m) == (nblocks + 1)..(nblocks + m)
Alloc(h, blocks) == [h EXCEPT !.live = @ \cup blocks]
free(h, blocks) == [live |-> h.live \ blocks, mis |-> h.mis \cup (blocks \ h.live)]

\* the number of attributes of element n that the code duplicates
Strdups(n, keys) == Cardinality({p \in 1..Len(n.props) : n.props[p].name \in keys})

\* the release functions, which are not in xml.c: each releases the object
\* and all that it owns
free_channel(h, more) == free(h, own.chn \cup more)
free_device(h, more) == free(h, own.dev \cup more)
iio_context_destroy(h, more) == free(h, own.ctx \cup more)

\* the error leaves iio_create_xml_context_helper
Return(e, got, h) ==
    /\ mpc' = "done"
    /\ mret' = e
    /\ nblocks' = nblocks + got
    /\ live' = h.live
    /\ misfreed' = h.mis
    /\ UNCHANGED <<pos, own>>

\* an error below iio_populate_xml_context_helper, in create_device and in
\* create_channel: the callers' error paths
PopulateFails(e, got, h) == Return(e, got, iio_context_destroy(h, {}))
DeviceFails(e, got, h) == PopulateFails(e, got, free_device(h, {}))
ChannelFails(e, got, h) == DeviceFails(e, got, free_channel(h, {}))

\* the step went through: `got` blocks were handed out
Kept(got) ==
    /\ nblocks' = nblocks + got
    /\ live' = live \cup Fresh(got)
    /\ UNCHANGED <<misfreed, mret>>


\* the elements the walk is at
AtRoot == doc.children[pos.i]
AtDevice == AtRoot.children[pos.j]
AtChannel == AtDevice.children[pos.k]

Advance(field) ==
    /\ pos' = [pos EXCEPT ![field] = @ + 1]
    /\ UNCHANGED mpc

\* iio_create_xml_context_helper up to the call of the populate helper:
\* the context, then the copy of the build tag
ContextAllocs == 1 + Strdups(doc, {"version-git"})

ContextAllocated(m, f) ==
    IF f = 1 THEN Return(0 - ENOMEM, 0, Heap)
    ELSE IF f = 2
    THEN Return(0 - ENOMEM, 1, iio_context_destroy(Alloc(Heap, Fresh(1)), Fresh(1)))
    ELSE /\ Kept(m)
         /\ own' = [own EXCEPT !.ctx = Fresh(m)]
         /\ pos' = [pos EXCEPT !.i = 1]
         /\ mpc' = "root"

MStart ==
    /\ mpc = "start"
    /\ IF ~IsContextRoot(doc)
       THEN Return(0 - EINVAL, 0, Heap)
       ELSE \E f \in 0..ContextAllocs : ContextAllocated(ContextAllocs, f)
    /\ UNCHANGED <<buildVars, maskVars>>

\* parse_context_attr: iio_context_add_attr is one allocation point
ContextAttrAdded(f) ==
    IF f = 1 THEN PopulateFails(0 - ENOMEM, 0, Heap)
    ELSE /\ Kept(1)
         /\ own' = [own EXCEPT !.ctx = @ \cup Fresh(1)]
         /\ Advance("i")

MContextAttr ==
    /\ mpc = "root"
    /\ pos.i <= Len(doc.children)
    /\ AtRoot.name = "context-attribute"
    /\ IF ~HasProp(AtRoot, "name") \/ ~HasProp(AtRoot, "value")
       THEN PopulateFails(0 - EINVAL, 0, Heap)
       ELSE \E f \in 0..1 : ContextAttrAdded(f)
    /\ UNCHANGED <<buildVars, maskVars>>

MSkipRootChild ==
    /\ mpc = "root"
    /\ pos.i <= Len(doc.children)
    /\ AtRoot.name \notin {"context-attribute", "device"}
    /\ Advance("i")
    /\ UNCHANGED <<nblocks, live, misfreed, own, mret, buildVars, maskVars>>

\* create_device up to the loop over the children: the device, then its
\* name, label and id in the order of the attributes
DeviceAllocs == 1 + Strdups(AtRoot, {"name", "label", "id"})

DeviceAllocated(m, f) ==
    IF f = 1 THEN PopulateFails(0 - ENOMEM, 0, Heap)
    ELSE IF f > 1
    THEN PopulateFails(0 - ENOMEM, f - 1,
                       free_device(Alloc(Heap, Fresh(f - 1)), Fresh(f - 1)))
    ELSE IF ~HasProp(AtRoot, "id")
    THEN PopulateFails(0 - EINVAL, m, free_device(Alloc(Heap, Fresh(m)), Fresh(m)))
    ELSE /\ Kept(m)
         /\ own' = [own EXCEPT !.dev = Fresh(m), !.devSelf = nblocks + 1]
         /\ pos' = [pos EXCEPT !.j = 1]
         /\ mpc' = "dev"

MDeviceStart ==
    /\ mpc = "root"
    /\ pos.i <= Len(doc.children)
    /\ AtRoot.name = "device"
    /\ \E f \in 0..DeviceAllocs : DeviceAllocated(DeviceAllocs, f)
    /\ UNCHANGED <<buildVars, maskVars>>

\* add_attr_to_device: add_iio_dev_attr is one allocation point
DeviceAttrAdded(f) ==
    IF f = 1 THEN DeviceFails(0 - ENOMEM, 0, Heap)
    ELSE /\ Kept(1)
         /\ own' = [own EXCEPT !.dev = @ \cup Fresh(1)]
         /\ Advance("j")

MDeviceAttr ==
    /\ mpc = "dev"
    /\ pos.j <= Len(AtRoot.children)
    /\ AtDevice.name \in DevAttrKinds
    /\ IF ~HasProp(AtDevice, "name")
       THEN DeviceFails(0 - EINVAL, 0, Heap)
       ELSE \E f \in 0..1 : DeviceAttrAdded(f)
    /\ UNCHANGED <<buildVars, maskVars>>

MSkipDeviceChild ==
    /\ mpc = "dev"
    /\ pos.j <= Len(AtRoot.children)
    /\ AtDevice.name \notin DevAttrKinds \cup {"channel"}
    /\ Advance("j")
    /\ UNCHANGED <<nblocks, live, misfreed, own, mret, buildVars, maskVars>>

\* create_channel up to the loop over the children: the channel, then its
\* name and id in the order of the attributes
ChannelAllocs == 1 + Strdups(AtDevice, {"name", "id"})

ChannelAllocated(m, f) ==
    IF f = 1 THEN DeviceFails(0 - ENOMEM, 0, Heap)
    ELSE IF f > 1
    THEN DeviceFails(0 - ENOMEM, f - 1,
                     free_channel(Alloc(Heap, Fresh(f - 1)), Fresh(f - 1)))
    ELSE IF ~HasProp(AtDevice, "id")
    THEN DeviceFails(0 - EINVAL, m, free_channel(Alloc(Heap, Fresh(m)), Fresh(m)))
    ELSE /\ Kept(m)
         /\ own' = [own EXCEPT !.chn = Fresh(m), !.chnSelf = nblocks + 1]
         /\ pos' = [pos EXCEPT !.k = 1]
         /\ mpc' = "chn"

MChannelStart ==
    /\ mpc = "dev"
    /\ pos.j <= Len(AtRoot.children)
    /\ AtDevice.name = "channel"
    /\ \E f \in 0..ChannelAllocs : ChannelAllocated(ChannelAllocs, f)
    /\ UNCHANGED <<buildVars, maskVars>>

\* add_attr_to_channel: name and filename in the order of the attributes;
\* with a name, the copy of name when filename is missing, then the realloc
\* of chn->attrs.  err_free releases name and filename.
AttrAllocs ==
    IF HasProp(AtChannel, "name")
    THEN Strdups(AtChannel, {"name", "filename"})
         + (IF HasProp(AtChannel, "filename") THEN 0 ELSE 1) + 1
    ELSE Strdups(AtChannel, {"name", "filename"})

ChannelAttrAdded(strings) ==
    IF own.chnAttrs = 0
    THEN /\ Kept(strings + 1)
         /\ own' = [own EXCEPT !.chn = @ \cup Fresh(strings + 1),
                               !.chnAttrs = nblocks + strings + 1]
         /\ Advance("k")
    ELSE /\ Kept(strings)
         /\ own' = [own EXCEPT !.chn = @ \cup Fresh(strings)]
         /\ Advance("k")

ChannelAttrAllocated(m, f) ==
    IF f > 0
    THEN ChannelFails(0 - ENOMEM, f - 1, free(Alloc(Heap, Fresh(f - 1)), Fresh(f - 1)))
    ELSE IF ~HasProp(AtChannel, "name")
    THEN ChannelFails(0 - EINVAL, m, free(Alloc(Heap, Fresh(m)), Fresh(m)))
    ELSE ChannelAttrAdded(m - 1)

MChannelAttr ==
    /\ mpc = "chn"
    /\ pos.k <= Len(AtDevice.children)
    /\ AtChannel.name = "attribute"
    /\ \E f \in 0..AttrAllocs : ChannelAttrAllocated(AttrAllocs, f)
    /\ UNCHANGED <<buildVars, maskVars>>

\* setup_scan_element allocates nothing
ScanElementRead(e) ==
    IF e < 0
    THEN ChannelFails(e, 0, Heap)
    ELSE /\ Advance("k")
         /\ UNCHANGED <<nblocks, live, misfreed, own, mret>>

MScanElement ==
    /\ mpc = "chn"
    /\ pos.k <= Len(AtDevice.children)
    /\ AtChannel.name = "scan-element"
    /\ ScanElementRead(setup_scan_element(ZeroChannel, AtChannel, longBits).err)
    /\ UNCHANGED <<buildVars, maskVars>>

MSkipChannelChild ==
    /\ mpc = "chn"
    /\ pos.k <= Len(AtDevice.children)
    /\ AtChannel.name \notin {"attribute", "scan-element"}
    /\ Advance("k")
    /\ UNCHANGED <<nblocks, live, misfreed, own, mret, buildVars, maskVars>>

\* create_channel returns the channel; create_device grows dev->channels.
\* When the realloc fails the code calls free(chn), not free_channel(chn).
ChannelAppended(got) ==
    /\ Kept(got)
    /\ own' = [own EXCEPT !.dev = @ \cup own.chn \cup Fresh(got),
                          !.devChannels = IF got = 1 THEN nblocks + 1 ELSE @,
                          !.chn = {}, !.chnSelf = 0, !.chnAttrs = 0]
    /\ pos' = [pos EXCEPT !.j = @ + 1, !.k = 0]
    /\ mpc' = "dev"

ChannelListGrown(f) ==
    IF f = 1 THEN DeviceFails(0 - ENOMEM, 0, free(Heap, {own.chnSelf}))
    ELSE IF own.devChannels = 0 THEN ChannelAppended(1)
    ELSE ChannelAppended(0)

MChannelDone ==
    /\ mpc = "chn"
    /\ pos.k > Len(AtDevice.children)
    /\ \E f \in 0..1 : ChannelListGrown(f)
    /\ UNCHANGED <<buildVars, maskVars>>

\* create_device returns the device; iio_context_add_device is one
\* allocation point.  When it fails the code calls free(dev), not
\* free_device(dev).
DeviceAppended(got) ==
    /\ Kept(got)
    /\ own' = [own EXCEPT !.ctx = @ \cup own.dev \cup Fresh(got),
                          !.ctxDevices = IF got = 1 THEN nblocks + 1 ELSE @,
                          !.dev = {}, !.devSelf = 0, !.devChannels = 0]
    /\ pos' = [pos EXCEPT !.i = @ + 1, !.j = 0]
    /\ mpc' = "root"

DeviceListGrown(f) ==
    IF f = 1 THEN PopulateFails(0 - ENOMEM, 0, free(Heap, {own.devSelf}))
    ELSE IF own.ctxDevices = 0 THEN DeviceAppended(1)
    ELSE DeviceAppended(0)

MDeviceDone ==
    /\ mpc = "dev"
    /\ pos.j > Len(AtRoot.children)
    /\ \E f \in 0..1 : DeviceListGrown(f)
    /\ UNCHANGED <<buildVars, maskVars>>

\* the loop over the children of the root is over: iio_context_init, and
\* the context is returned
MFinish ==
    /\ mpc = "root"
    /\ pos.i > Len(doc.children)
    /\ mpc' = "done"
    /\ mret' = iio_context_init(ZeroContext).err
    /\ UNCHANGED <<pos, nblocks, live, misfreed, own, buildVars, maskVars>>

\* the memory view of the builder, on the documents of StructDocs
MemInit ==
    /\ doc \in StructDocs
    /\ longBits \in {32, 64}
    /\ InitBuild
    /\ InitMask
    /\ InitMem

MemNext ==
    \/ MStart
    \/ MContextAttr
    \/ MSkipRootChild
    \/ MDeviceStart
    \/ MDeviceAttr
    \/ MSkipDeviceChild
    \/ MChannelStart
    \/ MChannelAttr
    \/ MScanElement
    \/ MSkipChannelChild
    \/ MChannelDone
    \/ MDeviceDone
    \/ MFinish

MemSpec == MemInit /\ [][MemNext]_vars

----------------------------------------------------------------------------
\* C1: the build is all-or-nothing.  When the build is over and some step of
\* it returned an error (a device or channel without id, a device, channel
\* or context attribute without name or value, a scan-element attribute
\* that was refused), the build has returned an error and no context: the
\* context that was created has been destroyed, whatever was built from the
\* elements before the failing one.
C1_AllOrNothing ==
    (Done /\ (stepErr # 0 \/ Defective \/ SomeStepFails))
        => /\ ret.err < 0
           /\ ret.ptr = NIL
           /\ ctx = NIL
           /\ destroyed = created

\* a device was built and added, then the next device failed
C1_Witness ==
    /\ Done
    /\ ret.err < 0
    /\ created = 1
    /\ nchild >= 2
    /\ doc.children[1].name = "device"
    /\ doc.children[nchild].name = "device"
    /\ DefectiveDevice(doc.children[nchild])

----------------------------------------------------------------------------
\* C2: a document whose root element is not <context> makes the build
\* return an error, and the root is checked before a context is created:
\* on such a document no context is ever created, so none is destroyed.
C2_RootCheckedFirst ==
    doc.name # "context"
        => /\ created = 0
           /\ destroyed = 0
           /\ ctx = NIL
           /\ Done => (ret.err = 0 - EINVAL /\ ret.ptr = NIL)

\* the build of a document with another root, holding a device, is over
C2_Witness ==
    /\ Done
    /\ doc.name # "context"
    /\ Len(DeviceNodes) >= 1
    /\ ret.err < 0

----------------------------------------------------------------------------
\* C3: forward compatibility.  When a document that was built with success
\* is built again with an unknown attribute added to its <context>, to its
\* devices, channels, attribute elements or scan-elements, or with an
\* unknown or text child added under <context>, its devices or its
\* channels, the second build succeeds too and returns a context equal to
\* the first in every field, with the same warnings.
C3_ForwardCompatible ==
    (round = 2 /\ Done)
        => /\ ret.err = 0
           /\ ret = prev[1].ret
           /\ warnings = prev[1].warnings

\* the second build, of a document that the extension changed and that has
\* a device with a scan-element channel, is over
C3_Witness ==
    /\ round = 2
    /\ Done
    /\ doc # prev[1].doc
    /\ ret.err = 0
    /\ \E i \in 1..Len(ret.ptr[1].devices) :
          \E j \in 1..Len(ret.ptr[1].devices[i].channels) :
             BuiltChannel(i, j).is_scan_element

----------------------------------------------------------------------------
(***************************************************************************)
(* The format descriptor as the specification defines it:                  *)
(* E:S B/L[XR]>>H with E one of "be", "le", S one of s, S, u, U and B, L,  *)
(* R, H decimal numbers.                                                   *)
(***************************************************************************)
\* position of the first c in t, or 0
Find(t, c) ==
    IF StrChr(t, c)
    THEN CHOOSE i \in 1..Len(t) : t[i] = c /\ \A k \in 1..(i - 1) : t[k] # c
    ELSE 0

IsDecimal(t) == Len(t) > 0 /\ \A i \in 1..Len(t) : InSeq(DecDigits, t[i])

RECURSIVE DecValue(_)
DecValue(t) ==
    IF Len(t) = 0 THEN 0
    ELSE 10 * DecValue(SubSeq(t, 1, Len(t) - 1)) + IndexOf(DecDigits, t[Len(t)]) - 1

\* the parts of descriptor t, cut at its "/", "X" and ">>"
FmtParts(t) ==
    LET s == Find(t, "/")
        x == Find(t, "X")
        g == Find(t, ">")
    IN [endian |-> t[1],
        sign |-> t[4],
        bits |-> SubSeq(t, 5, s - 1),
        length |-> SubSeq(t, s + 1, (IF x > 0 THEN x ELSE g) - 1),
        repeat |-> IF x > 0 THEN SubSeq(t, x + 1, g - 1) ELSE <<"1">>,
        shift |-> SubSeq(t, g + 2, Len(t))]

\* t has one of the two shapes
WellShaped(t) ==
    /\ Len(t) >= 10
    /\ t[1] \in FmtEndian /\ t[2] = "e" /\ t[3] = ":" /\ t[4] \in FmtSign
    /\ Find(t, "/") > 5
    /\ Find(t, ">") > Find(t, "/") + 1
    /\ Find(t, ">") + 2 <= Len(t)
    /\ t[Find(t, ">") + 1] = ">"
    /\ Find(t, "X") = 0 \/ (Find(t, "/") + 1 < Find(t, "X") /\ Find(t, "X") + 1 < Find(t, ">"))
    /\ IsDecimal(FmtParts(t).bits)
    /\ IsDecimal(FmtParts(t).length)
    /\ IsDecimal(FmtParts(t).repeat)
    /\ IsDecimal(FmtParts(t).shift)

\* format f is what descriptor t denotes
Denotes(f, t) ==
    LET p == FmtParts(t)
    IN /\ f.bits = W(DecValue(p.bits))
       /\ f.length = W(DecValue(p.length))
       /\ f.repeat = W(DecValue(p.repeat))
       /\ f.shift = W(DecValue(p.shift))
       /\ f.is_be = (p.endian = "b")
       /\ f.is_signed = (p.sign \in {"s", "S"})
       /\ f.is_fully_defined = (p.sign \in {"S", "U"} \/ DecValue(p.bits) = DecValue(p.length))

\* C4: a channel built from an element whose scan-element carries one
\* well-formed format descriptor E:S B/L[XR]>>H has bits B, length L, shift
\* H, repeat R, or 1 without the repeat clause, is_be exactly when E is
\* "be", is_signed exactly when S is s or S, is_fully_defined exactly when S
\* is S or U or bits equals length.  "be:s16/16>>0" gives big-endian,
\* signed, 16 bits of 16, repeat 1, shift 0, fully defined, and
\* "le:u12/16X4>>2" little-endian, unsigned, 12 bits of 16, repeat 4,
\* shift 2.
C4_WellFormedDecode ==
    Built =>
        \A i \in 1..Len(DeviceNodes) : \A j \in 1..Len(ChannelNodes(i)) :
            \A t \in ScanTexts(ChannelNodes(i)[j], "format") :
                (ScanTexts(ChannelNodes(i)[j], "format") = {t} /\ WellShaped(t))
                    => /\ Denotes(BuiltChannel(i, j).format, t)
                       /\ t = ExampleBE =>
                            /\ BuiltChannel(i, j).format.is_be
                            /\ BuiltChannel(i, j).format.is_signed
                            /\ BuiltChannel(i, j).format.bits = W(16)
                            /\ BuiltChannel(i, j).format.length = W(16)
                            /\ BuiltChannel(i, j).format.repeat = W(1)
                            /\ BuiltChannel(i, j).format.shift = W(0)
                            /\ BuiltChannel(i, j).format.is_fully_defined
                       /\ t = ExampleLE =>
                            /\ ~BuiltChannel(i, j).format.is_be
                            /\ ~BuiltChannel(i, j).format.is_signed
                            /\ BuiltChannel(i, j).format.bits = W(12)
                            /\ BuiltChannel(i, j).format.length = W(16)
                            /\ BuiltChannel(i, j).format.repeat = W(4)
                            /\ BuiltChannel(i, j).format.shift = W(2)

\* a channel was built from a descriptor without repeat clause, with S
\* upper-case and fewer bits than length
C4_Witness ==
    /\ Built
    /\ \E i \in 1..Len(DeviceNodes) : \E j \in 1..Len(ChannelNodes(i)) :
          \E t \in ScanTexts(ChannelNodes(i)[j], "format") :
             /\ WellShaped(t)
             /\ ~StrChr(t, "X")
             /\ t[4] = "U"
             /\ BuiltChannel(i, j).format.bits = W(12)
             /\ BuiltChannel(i, j).format.length = W(16)
             /\ BuiltChannel(i, j).format.is_fully_defined

\* C5: format decoding is strict.  Every format text that has neither of
\* the two shapes makes the build fail, so that no format filled from it is
\* returned.
C5_StrictFormat ==
    Done =>
        \A cn \in VisitedChannels : \A t \in ScanTexts(cn, "format") :
            ~WellShaped(t) => (ret.err < 0 /\ ret.ptr = NIL)

----------------------------------------------------------------------------
\* C6: the channels mask.  After any sequence of set and clear operations on
\* the zeroed mask, a bit tests true exactly when the last operation on it
\* was a set: a bit that was set tests true, in the later words too, one
\* that was never touched tests false, and an operation on one bit changes
\* no other.
C6_MaskBitSemantics ==
    \A b \in 0..(MaskBits - 1) :
        iio_channels_mask_test_bit(mask, b) = (lastOp[b] = "set")

\* bits in three words were set, the last bit of the mask among them, one
\* was cleared again and one never touched
C6_Witness ==
    /\ lastOp[0] = "clear"
    /\ lastOp[1] = "none"
    /\ lastOp[31] = "set"
    /\ lastOp[32] = "set"
    /\ lastOp[MaskBits - 1] = "set"
    /\ iio_channels_mask_test_bit(mask, 31)
    /\ iio_channels_mask_test_bit(mask, MaskBits - 1)

----------------------------------------------------------------------------
(***************************************************************************)
(* Integer texts as the specification reads them: an optional sign and     *)
(* decimal digits, after optional white space.                             *)
(***************************************************************************)
\* the text from p on
From(t, p) == SubSeq(t, p, Len(t))
SignAt(t, p) == p <= Len(t) /\ t[p] \in {"+", "-"}
\* the digits of t, after white space and sign
DigitsPart(t) ==
    From(t, SkipSpace(t, 1) + (IF SignAt(t, SkipSpace(t, 1)) THEN 1 ELSE 0))
IntegerText(t) == IsDecimal(DigitsPart(t))
MinusText(t) == SignAt(t, SkipSpace(t, 1)) /\ t[SkipSpace(t, 1)] = "-"

\* the number a text of digits denotes, as a 64-bit word
RECURSIVE DecWord(_)
DecWord(t) ==
    IF Len(t) = 0 THEN Zero64
    ELSE MulAdd(DecWord(SubSeq(t, 1, Len(t) - 1)), 10,
                IndexOf(DecDigits, t[Len(t)]) - 1).val

\* t denotes an integer from 0 to LLONG_MAX
NonNegativeText(t) ==
    /\ IntegerText(t)
    /\ Len(DigitsPart(t)) <= 19
    /\ ~UGt64(DecWord(DigitsPart(t)), LLONG_MAX)
    /\ MinusText(t) => DecWord(DigitsPart(t)) = Zero64

\* C7: the index attribute of a scan-element is accepted only when its text
\* is a non-negative integer: any other text makes the build fail, and a
\* channel built from an accepted text has that integer as its index.
C7_IndexStrict ==
    Done =>
        /\ \A cn \in VisitedChannels : \A t \in ScanTexts(cn, "index") :
              ~NonNegativeText(t) => ret.err < 0
        /\ ret.err = 0 =>
              \A i \in 1..Len(DeviceNodes) : \A j \in 1..Len(ChannelNodes(i)) :
                  \A t \in ScanTexts(ChannelNodes(i)[j], "index") :
                      (ScanTexts(ChannelNodes(i)[j], "index") = {t} /\ NonNegativeText(t))
                          => BuiltChannel(i, j).index = DecWord(DigitsPart(t))

----------------------------------------------------------------------------
\* C8 as the specification has it: a built channel whose element has no
\* index attribute on a scan-element has index -1, and no built channel has
\* another negative index.
C8_SentinelMinusOne ==
    Built =>
        \A i \in 1..Len(DeviceNodes) : \A j \in 1..Len(ChannelNodes(i)) :
            /\ ScanTexts(ChannelNodes(i)[j], "index") = {}
                  => BuiltChannel(i, j).index = WNeg(1)
            /\ IsNeg64(BuiltChannel(i, j).index)
                  => BuiltChannel(i, j).index = WNeg(1)

\* C8: a built channel whose element has no index attribute on a
\* scan-element has index -ENOENT (-2).  Where long has 64 bits no built
\* channel has another negative index; where it has 32 bits, another
\* negative index is that of a channel with an index attribute whose value
\* is above LONG_MAX.
C8_SentinelNoEntry ==
    Built =>
        \A i \in 1..Len(DeviceNodes) : \A j \in 1..Len(ChannelNodes(i)) :
            /\ ScanTexts(ChannelNodes(i)[j], "index") = {}
                  => BuiltChannel(i, j).index = WNeg(ENOENT)
            /\ (IsNeg64(BuiltChannel(i, j).index) /\ BuiltChannel(i, j).index # WNeg(ENOENT))
                  => /\ longBits = 32
                     /\ \E t \in ScanTexts(ChannelNodes(i)[j], "index") :
                           UGt64(DecWord(DigitsPart(t)), IntMax(32))

\* a channel was built from a scan-element without index, after a channel
\* with an index
C8_Witness ==
    /\ Built
    /\ \E i \in 1..Len(DeviceNodes) : \E j \in 2..Len(ChannelNodes(i)) :
          /\ BuiltChannel(i, j).is_scan_element
          /\ ScanTexts(ChannelNodes(i)[j], "index") = {}
          /\ BuiltChannel(i, j).index = WNeg(ENOENT)
          /\ ~IsNeg64(BuiltChannel(i, 1).index)

----------------------------------------------------------------------------
\* the number integer text t denotes
IntegerValue(t) ==
    IF MinusText(t) THEN Neg64(DecWord(DigitsPart(t))) ELSE DecWord(DigitsPart(t))

\* the version attribute `key` of the root reads as the specification has
\* it: a text that is no integer gives a warning and the number 0 in the
\* context; an integer text gives that integer
VersionRecovered(key, field, warning) ==
    \A a \in PropsOf(doc) :
        a.name = key =>
            IF IntegerText(a.content)
            THEN Built => ret.ptr[1][field] = IntegerValue(a.content)
            ELSE /\ Done => InSeq(warnings, warning)
                 /\ Built => ret.ptr[1][field] = Zero64

\* C9: the version attributes are recovered locally.  A version-major or
\* version-minor whose text is no integer, an integer followed by other
\* characters included, gives a warning and the version number 0 in the
\* context, and does not make the build fail; a text that is an integer
\* gives that integer as the version number.
C9_VersionRecovered ==
    (Done /\ doc.name = "context" /\ round = 1) =>
        /\ VersionRecovered("version-major", "major", WarnMajor)
        /\ VersionRecovered("version-minor", "minor", WarnMinor)
        /\ (~Defective /\ ~SomeStepFails) => ret.err = 0

----------------------------------------------------------------------------
\* the scale text is refused as the specification has it: a character is
\* left unparsed, the value is out of range, or there is no number
ScaleRefused(t) ==
    \/ StrToF(t).end = 1
    \/ StrToF(t).erange
    \/ StrToF(t).end <= Len(t)

\* C10: scale decoding.  A scale text with a character left unparsed, with
\* a value out of range or without a number makes the build fail; a channel
\* built from a scale text has with_scale true and the parsed value as
\* scale; a channel built without scale attribute has with_scale false.
C10_ScaleStrict ==
    Done =>
        /\ \A cn \in VisitedChannels : \A t \in ScanTexts(cn, "scale") :
              ScaleRefused(t) => ret.err < 0
        /\ ret.err = 0 =>
              \A i \in 1..Len(DeviceNodes) : \A j \in 1..Len(ChannelNodes(i)) :
                  /\ ScanTexts(ChannelNodes(i)[j], "scale") = {}
                        => ~BuiltChannel(i, j).format.with_scale
                  /\ \A t \in ScanTexts(ChannelNodes(i)[j], "scale") :
                        ScanTexts(ChannelNodes(i)[j], "scale") = {t}
                            => /\ BuiltChannel(i, j).format.with_scale
                               /\ BuiltChannel(i, j).format.scale = StrToF(t).value


----------------------------------------------------------------------------
\* C11: no leak on an aborted build.  When the build has returned an error,
\* whatever the failure was (a refused element, or an allocation that
\* failed at any allocation point), every heap block handed out for the
\* partially built context has been released, and none has been released
\* while it was not live (none twice).
C11_NoLeakOnAbort ==
    (mpc = "done" /\ mret < 0) => (live = {} /\ misfreed = {})

----------------------------------------------------------------------------
\* the text of attribute `key` of element n, which has it
TextOf(n, key) == (CHOOSE a \in PropsOf(n) : a.name = key).content
AttrNodes(cn) == Named(cn.children, "attribute")

\* channel attribute a is the one built from element an
BuiltFromAttr(a, an) ==
    /\ a.name = TextOf(an, "name")
    /\ a.filename = IF HasProp(an, "filename") THEN TextOf(an, "filename")
                    ELSE TextOf(an, "name")

\* the attributes of a channel are those built from the elements ans, in
\* their order
AttrsInOrder(attrs, ans) ==
    /\ Len(attrs) = Len(ans)
    /\ \A k \in 1..Len(ans) : BuiltFromAttr(attrs[k], ans[k])

\* channel c is the one built from element cn
BuiltFromChannel(c, cn) ==
    /\ c.id = TextOf(cn, "id")
    /\ c.name = IF HasProp(cn, "name") THEN TextOf(cn, "name") ELSE NULL
    /\ c.is_output = (HasProp(cn, "type") /\ TextOf(cn, "type") = Output)
    /\ c.is_scan_element = (Among(cn.children, {"scan-element"}) # {})
    /\ AttrsInOrder(c.attrs, AttrNodes(cn))

\* the channels of a device are those built from the elements cns, in their
\* order
ChannelsInOrder(chns, cns) ==
    /\ Len(chns) = Len(cns)
    /\ \A j \in 1..Len(cns) : BuiltFromChannel(chns[j], cns[j])

DevicesInOrder(devs, dns) ==
    /\ Len(devs) = Len(dns)
    /\ \A i \in 1..Len(dns) :
          /\ devs[i].id = TextOf(dns[i], "id")
          /\ ChannelsInOrder(devs[i].channels, Named(dns[i].children, "channel"))

\* C12: the builder preserves document order.  In every successfully built
\* context, the channel list of each device has as many entries as the
\* <device> element has <channel> children and its k-th entry is the channel
\* built from the k-th of them; the attribute list of each channel has as
\* many entries as the <channel> element has <attribute> children and its
\* k-th entry is built from the k-th of them, with the given filename, or
\* with the name as filename when no filename is given.
C12_DocumentOrder ==
    Built => DevicesInOrder(ret.ptr[1].devices, DeviceNodes)

\* a built device with three channels, the second of which has two
\* attributes, one with a filename and one without, of different names
C12_Witness ==
    /\ Built
    /\ \E i \in 1..Len(DeviceNodes) :
          /\ Len(ret.ptr[1].devices[i].channels) = 3
          /\ Len(BuiltChannel(i, 2).attrs) = 2
          /\ HasProp(AttrNodes(ChannelNodes(i)[2])[1], "filename")
          /\ ~HasProp(AttrNodes(ChannelNodes(i)[2])[2], "filename")
          /\ BuiltChannel(i, 2).attrs[1].name # BuiltChannel(i, 2).attrs[2].name
          /\ BuiltChannel(i, 1).id # BuiltChannel(i, 3).id
          /\ BuiltChannel(i, 1).id # BuiltChannel(i, 2).id

====
